---- MODULE Spec2Model ----
(***************************************************************************)
(* A model of the DevOps agent pipeline: main() of main.py and the agents  *)
(* it drives (GitHubActionsAgent, DockerfileAgent, BuildStatusAgent,       *)
(* BuildPredictorAgent).  One run of main() is a walk of pc through the    *)
(* four phases; the local image store and the written files outlive a run. *)
(***************************************************************************)
EXTENDS Integers, Sequences, FiniteSets, TLC

\* Number of consecutive runs of main() that are explored.
MaxRuns == 2

\* ------------------------------------------------------------------------
\* Values

\* A local variable of main() that has not been assigned yet.
Unbound == [unbound |-> TRUE]
UnboundStr == "<unbound>"

\* The image tag main() builds and inspects (main.py:60, main.py:67).
ImageTag == "myapp:latest"

\* The two files main() writes (main.py:36, main.py:54).
WorkflowPath == ".github/workflows/CI3.yml"
DockerfilePath == "Dockerfile"
Missing == <<"<no file>">>

\* os.getenv of the two variables: TRUE when set, FALSE when it returns None.
Envs == [GROQ_API_ENDPOINT : BOOLEAN, GROQ_API_KEY : BOOLEAN]

\* Outcome of "with open(path, 'w') as f: f.write(text)".
WriteOutcomes == {"ok", "open_failed", "write_failed"}

\* Outcome of subprocess.run: the process could not be launched (an
\* exception), or it ran and exited with a return code (negative: signal).
LaunchError == "[Errno 2] No such file or directory: 'docker'"
ExitCodes == {0, 1, 125, -9}
ProcOutcomes ==
    {[launched |-> FALSE, error |-> LaunchError]}
        \cup {[launched |-> TRUE, returncode |-> rc] : rc \in ExitCodes}

\* Outcome of client.chat.completions.create: an exception of the client
\* library (connection, authentication, quota, server error), or a response
\* object with its list of choices (empty: a malformed response).
AdapterOutcomes ==
    {[raised |-> TRUE, error |-> m] :
        m \in {"Connection error.", "Error code: 401", "Error code: 429",
               "Error code: 500"}}
        \cup {[raised |-> FALSE, choices |-> <<>>],
              [raised |-> FALSE, choices |-> <<[content |-> "The build is likely to fail."]>>],
              [raised |-> FALSE, choices |-> <<[content |-> "The build should succeed."]>>]}

\* ------------------------------------------------------------------------
\* Pure functions of the agents

\* GitHubActionsConfig(...) / DockerfileConfig(...): groq_api_endpoint and
\* groq_api_key are required str fields, None is rejected.
ConfigValid(e) == e.GROQ_API_ENDPOINT /\ e.GROQ_API_KEY

\* BuildPredictorConfig(...): only groq_api_key is a field of the model.
PredictorConfigValid(e) == e.GROQ_API_KEY

gha_config ==
    [workflow_name |-> "CI Pipeline", python_version |-> "3.13.0", run_tests |-> TRUE]

\* A Python str is modelled by the sequence of its tokens, so that the line
\* breaks inside it can be told from the rest of the text.
LF == "\n"

docker_config ==
    [base_image |-> <<"nginx:alpine">>, expose_port |-> 80,
     copy_source |-> <<"./html">>, work_dir |-> <<"/usr/share/nginx/html">>]

\* GitHubActionsAgent.generate_pipeline: the workflow text, by its lines
\* (the lines that interpolate the configuration and the step names).
generate_pipeline(config) ==
    << "",
       "name: " \o config.workflow_name,
       "- name: Checkout code",
       "- name: Set up Python " \o config.python_version,
       "python-version: " \o config.python_version,
       "- name: Cache pip packages",
       "- name: Install dependencies",
       "- name: Set up Docker Buildx",
       "- name: Run DevOps AI Team",
       "- name: Start Docker Container",
       "- name: Test Docker Container" >>

\* generate_dockerfile with the COPY and WORKDIR instructions exchanged.
generate_dockerfile_copy_first(config) ==
    <<LF, "FROM", " ">> \o config.base_image
        \o <<LF, LF, "COPY", " ">> \o config.copy_source \o <<" ", ".">>
        \o <<LF, LF, "WORKDIR", " ">> \o config.work_dir
        \o <<LF, LF, "EXPOSE", " ", ToString(config.expose_port)>>
        \o <<LF, LF, "CMD", " ", "[\"nginx\", \"-g\", \"daemon off;\"]", LF>>

\* DockerfileAgent.generate_dockerfile: the f-string, token by token.
generate_dockerfile(config) ==
    <<LF, "FROM", " ">> \o config.base_image
        \o <<LF, LF, "WORKDIR", " ">> \o config.work_dir
        \o <<LF, LF, "COPY", " ">> \o config.copy_source \o <<" ", ".">>
        \o <<LF, LF, "EXPOSE", " ", ToString(config.expose_port)>>
        \o <<LF, LF, "CMD", " ", "[\"nginx\", \"-g\", \"daemon off;\"]", LF>>

ExistsMsg(tag) == "Docker image '" \o tag \o "' exists."
NotExistsMsg(tag) == "Docker image '" \o tag \o "' does not exist."
ErrorMsg(e) == "Error checking build status: " \o e

\* check_build_status without the test of the return code.
check_build_status_no_returncode(tag, proc) ==
    IF ~proc.launched THEN ErrorMsg(proc.error) ELSE ExistsMsg(tag)

\* BuildStatusAgent.check_build_status, given what subprocess.run did.
check_build_status(tag, proc) ==
    IF ~proc.launched
    THEN ErrorMsg(proc.error)
    ELSE IF proc.returncode = 0 THEN ExistsMsg(tag) ELSE NotExistsMsg(tag)

\* predict_build_failure with the read of choices[0] outside the try block's
\* protection: a response without choices is passed on as a success.
predict_build_failure_unguarded(resp) ==
    IF resp.raised
    THEN [error |-> resp.error, status |-> "error"]
    ELSE [prediction |-> IF Len(resp.choices) = 0 THEN ""
                         ELSE resp.choices[1].content,
          status |-> "success"]

\* BuildPredictorAgent.predict_build_failure, given what the client did.
\* choices[0] of an empty list raises IndexError inside the try block.
predict_build_failure(resp) ==
    IF resp.raised
    THEN [error |-> resp.error, status |-> "error"]
    ELSE IF Len(resp.choices) = 0
         THEN [error |-> "list index out of range", status |-> "error"]
         ELSE [prediction |-> resp.choices[1].content, status |-> "success"]

\* build_data with the status of the build assumed instead of inspected.
BuildDataAssumed(st) ==
    [dockerfile_exists |-> TRUE,
     ci_pipeline_exists |-> TRUE,
     last_build_status |-> ExistsMsg(ImageTag),
     python_version |-> "3.13.0",
     dependencies_updated |-> TRUE]

\* The build_data dict main() assembles for the predictor.
BuildData(st) ==
    [dockerfile_exists |-> TRUE,
     ci_pipeline_exists |-> TRUE,
     last_build_status |-> st,
     python_version |-> "3.13.0",
     dependencies_updated |-> TRUE]

\* ------------------------------------------------------------------------
\* State

VARIABLES
    pc,            \* position of main(): phase1..phase4, done, raised
    run,           \* number of the current run of main()
    env,           \* the environment variables of the current run
    images,        \* tags in the local image store (outlives a run)
    files,         \* path -> lines written, or Missing (outlives a run)
    build_result,  \* main(): result of the docker build process
    status,        \* main(): value returned by check_build_status
    build_data,    \* main(): dict handed to predict_build_failure
    prediction,    \* main(): value returned by predict_build_failure
    stdout,        \* lines printed by the current run
    exc,           \* the exception that left main(), or "none"
    write_res,     \* outcome of the artifact writes of this run, by phase
    build_proc,    \* what the docker build process of this run did
    inspect_proc,  \* what the docker inspect process of this run did
    adapter_resp,  \* what the inference client call of this run did
    calls          \* external invocations of this run, by kind

\* The agents used on their own (fetch_config, generate_dockerfile,
\* CodeReviewAgent.run, ChatAgent.run)
VARIABLES
    agent,         \* which program is running: "main", or the agent in use
    apc,           \* position of the agent's caller
    config,        \* self.config of the agent
    remote,        \* the remote configuration document
    pr_files,      \* the files of the pull request, with the review of each
    github,        \* which create_issue_comment call fails (0: none)
    chat_resp,     \* what send_chat_create_request does
    comments,      \* the comments posted on the pull request
    ret,           \* the value the agent's method returned
    aexc           \* the exception that left the agent's method, or "none"

mvars == <<pc, run, env, images, files, build_result, status, build_data,
           prediction, stdout, exc, write_res, build_proc, inspect_proc,
           adapter_resp, calls>>

avars == <<agent, apc, config, remote, pr_files, github, chat_resp, comments,
           ret, aexc>>

vars == <<mvars, avars>>

NoCalls == [build |-> 0, inspect |-> 0, adapter |-> 0]
NoWrites == [a |-> "none", b |-> "none"]

\* print that forgets what was printed before.
PrintedOverwrite(out, lines) == lines

\* print(...): the line is appended to what the run has printed so far.
Printed(out, lines) == out \o lines

Line(phase, kind, text) == [phase |-> phase, kind |-> kind, text |-> text]

\* No agent is used on its own while main() runs.
AgentIdle ==
    /\ agent = "main"
    /\ apc = "idle"
    /\ config = Unbound
    /\ remote = Unbound
    /\ pr_files = <<>>
    /\ github = 0
    /\ chat_resp = Unbound
    /\ comments = <<>>
    /\ ret = Unbound
    /\ aexc = "none"

\* State of the locals when main() is entered.
FreshRun(e) ==
    /\ pc' = "phase1"
    /\ env' = e
    /\ build_result' = Unbound
    /\ status' = UnboundStr
    /\ build_data' = Unbound
    /\ prediction' = Unbound
    /\ stdout' = << Line("", "banner", "DevOps AI Team Starting Up...") >>
    /\ exc' = "none"
    /\ write_res' = NoWrites
    /\ build_proc' = Unbound
    /\ inspect_proc' = Unbound
    /\ adapter_resp' = Unbound
    /\ calls' = NoCalls

Init ==
    /\ pc = "phase1"
    /\ run = 1
    /\ env \in Envs
    /\ images \in {{}, {ImageTag}}
    /\ files = [p \in {WorkflowPath, DockerfilePath} |-> Missing]
    /\ build_result = Unbound
    /\ status = UnboundStr
    /\ build_data = Unbound
    /\ prediction = Unbound
    /\ stdout = << Line("", "banner", "DevOps AI Team Starting Up...") >>
    /\ exc = "none"
    /\ write_res = NoWrites
    /\ build_proc = Unbound
    /\ inspect_proc = Unbound
    /\ adapter_resp = Unbound
    /\ calls = NoCalls
    /\ AgentIdle

\* An exception leaves main(): nothing after the raising statement runs.
Raise(name, printed) ==
    /\ pc' = "raised"
    /\ exc' = name
    /\ stdout' = Printed(stdout, printed)

\* The file after "with open(path, 'w') as f: f.write(text)".
Written(old, text, w) ==
    CASE w = "ok" -> text
      [] w = "open_failed" -> old
      [] w = "write_failed" -> <<>>

\* A write whose failure is swallowed.
AfterWriteIsolated(w, next) == next

\* Where main() continues after writing an artifact.
AfterWrite(w, next) == IF w = "ok" THEN next ELSE "raised"

\* A build after which the status check is skipped.
AfterBuildSkipInspect(proc, next) == IF proc.launched THEN "phase4" ELSE "raised"

\* Where main() continues after subprocess.run of the docker build.
AfterBuild(proc, next) == IF proc.launched THEN next ELSE "raised"

\* An external call that is made a second time.
InvokedWithRetry(c, kind) == [c EXCEPT ![kind] = @ + 2]

\* One external call of the kind (docker build, docker inspect, inference
\* client): each is a single statement of main() or of its agent, in no loop.
Invoked(c, kind) == [c EXCEPT ![kind] = @ + 1]

\* The exit status of "python main.py": an exception that leaves main()
\* ends the interpreter with status 1.
ExitCode(p) == IF p = "raised" THEN 1 ELSE 0

\* 1. Create GitHub Actions Pipeline (main.py:23-38)
Phase1 ==
    /\ pc = "phase1"
    /\ LET header == << Line("a", "start", "GitHub Actions Agent: Creating CI/CD Pipeline...") >>
       IN IF ~ConfigValid(env)
          THEN /\ Raise("ValidationError", header)
               /\ UNCHANGED <<files, write_res>>
          ELSE \E w \in WriteOutcomes :
                 /\ files' = [files EXCEPT ![WorkflowPath] =
                                 Written(@, generate_pipeline(gha_config), w)]
                 /\ pc' = AfterWrite(w, "phase2")
                 /\ exc' = IF pc' = "raised" THEN "OSError" ELSE "none"
                 /\ write_res' = [write_res EXCEPT !.a = w]
                 /\ stdout' = Printed(stdout, header \o
                        (IF pc' = "raised" THEN <<>>
                         ELSE << Line("a", "result", "CI/CD Pipeline created!") >>))
    /\ UNCHANGED avars
    /\ UNCHANGED <<run, env, images, build_result, status, build_data,
                   prediction, build_proc, inspect_proc, adapter_resp, calls>>

\* 2. Create Dockerfile (main.py:40-56)
Phase2 ==
    /\ pc = "phase2"
    /\ LET header == << Line("b", "start", "Dockerfile Agent: Creating Dockerfile...") >>
       IN IF ~ConfigValid(env)
          THEN /\ Raise("ValidationError", header)
               /\ UNCHANGED <<files, write_res>>
          ELSE \E w \in WriteOutcomes :
                 /\ files' = [files EXCEPT ![DockerfilePath] =
                                 Written(@, generate_dockerfile(docker_config), w)]
                 /\ pc' = AfterWrite(w, "build")
                 /\ exc' = IF pc' = "raised" THEN "OSError" ELSE "none"
                 /\ write_res' = [write_res EXCEPT !.b = w]
                 /\ stdout' = Printed(stdout, header \o
                        (IF pc' = "raised" THEN <<>>
                         ELSE << Line("b", "result", "Dockerfile created!") >>))
    /\ UNCHANGED avars
    /\ UNCHANGED <<run, env, images, build_result, status, build_data,
                   prediction, build_proc, inspect_proc, adapter_resp, calls>>

\* 3. Build (main.py:58-70): docker build -t myapp:latest .
\* The process is run without check=True and outside any try block.
Phase3Build ==
    /\ pc = "build"
    /\ \E proc \in ProcOutcomes :
         /\ calls' = Invoked(calls, "build")
         /\ pc' = AfterBuild(proc, "inspect")
         /\ build_result' = IF proc.launched THEN proc ELSE Unbound
         /\ exc' = IF pc' = "raised" THEN "FileNotFoundError" ELSE "none"
         /\ images' = IF proc.launched /\ proc.returncode = 0
                      THEN images \cup {ImageTag} ELSE images
         /\ build_proc' = proc
         /\ stdout' = Printed(stdout,
                << Line("c", "start", "Build Status Agent: Building and checking Docker image..."),
                   Line("c", "progress", "Building Docker image...") >>)
    /\ UNCHANGED avars
    /\ UNCHANGED <<run, env, files, status, build_data, prediction,
                   write_res, inspect_proc, adapter_resp>>

\* 3. Check status (main.py:72-74): docker inspect myapp:latest
\* The inspect exits 0 only for a tag that is in the image store.
Phase3Check ==
    /\ pc = "inspect"
    /\ \E proc \in ProcOutcomes :
         /\ (proc.launched /\ proc.returncode = 0) => ImageTag \in images
         /\ calls' = Invoked(calls, "inspect")
         /\ inspect_proc' = proc
         /\ status' = check_build_status(ImageTag, proc)
         /\ stdout' = Printed(stdout,
                << Line("c", "result", "Build Status: " \o status') >>)
    /\ pc' = "phase4"
    /\ UNCHANGED avars
    /\ UNCHANGED <<run, env, images, files, build_result, build_data,
                   prediction, exc, write_res, build_proc, adapter_resp>>

\* 4. Predict Build Success/Failure (main.py:76-98)
Phase4 ==
    /\ pc = "phase4"
    /\ LET header == << Line("d", "start", "Build Predictor Agent: Analyzing build patterns...") >>
       IN IF ~PredictorConfigValid(env)
          THEN /\ Raise("ValidationError", header)
               /\ UNCHANGED <<build_data, prediction, adapter_resp, calls>>
          ELSE \E resp \in AdapterOutcomes :
                 /\ build_data' = BuildData(status)
                 /\ calls' = Invoked(calls, "adapter")
                 /\ adapter_resp' = resp
                 /\ prediction' = predict_build_failure(resp)
                 /\ stdout' = Printed(stdout, header \o
                        << [phase |-> "d", kind |-> "result",
                            text |-> "Build Prediction: ", value |-> prediction'],
                           Line("", "banner", "DevOps AI Team has completed their tasks!") >>)
                 /\ pc' = "done"
                 /\ exc' = "none"
    /\ UNCHANGED avars
    /\ UNCHANGED <<run, env, images, files, build_result, status, write_res,
                   build_proc, inspect_proc>>

\* main() is run again (a later pipeline run on the same machine).
NextRun ==
    /\ pc \in {"done", "raised"}
    /\ run < MaxRuns
    /\ run' = run + 1
    /\ \E e \in Envs : FreshRun(e)
    /\ UNCHANGED avars
    /\ UNCHANGED <<images, files>>

Next == Phase1 \/ Phase2 \/ Phase3Build \/ Phase3Check \/ Phase4 \/ NextRun

Spec == Init /\ [][Next]_vars

\* ------------------------------------------------------------------------
\* The agents used on their own

\* main() is not running.
MainIdle ==
    /\ pc = "idle"
    /\ run = 1
    /\ env = [GROQ_API_ENDPOINT |-> TRUE, GROQ_API_KEY |-> TRUE]
    /\ images = {}
    /\ files = [p \in {WorkflowPath, DockerfilePath} |-> Missing]
    /\ build_result = Unbound
    /\ status = UnboundStr
    /\ build_data = Unbound
    /\ prediction = Unbound
    /\ stdout = <<>>
    /\ exc = "none"
    /\ write_res = NoWrites
    /\ build_proc = Unbound
    /\ inspect_proc = Unbound
    /\ adapter_resp = Unbound
    /\ calls = NoCalls

\* The methods class GROQClient defines.
GROQClientMethods ==
    {"send_inference_request", "send_code_review_request", "send_chat_create_request"}

\* dict.get(key, default)
Get(d, key, default) == IF key \in DOMAIN d THEN d[key] ELSE default

\* "if result:" : None and the empty dict are false.
Truthy(r) == r.available /\ DOMAIN r.doc # {}

\* The remote documents: not available (None), or a dict with any subset of
\* the keys the query asks for.
PartialDocs(full) ==
    {[available |-> FALSE]}
        \cup {[available |-> TRUE, doc |-> [k \in K |-> full[k]]] : K \in SUBSET DOMAIN full}

GhaRemoteFull ==
    [workflowName |-> "Release", pythonVersion |-> "3.12.0", runTests |-> FALSE]

DockerRemoteFull ==
    [baseImage |-> <<"python:3.13-slim">>, exposePort |-> 8080,
     copySource |-> <<".">>, workDir |-> <<"/app">>]

\* The configuration the agent is constructed with.
GhaConfigs ==
    {[workflow_name |-> "CI Pipeline", python_version |-> "3.13.0", run_tests |-> TRUE,
      groq_api_endpoint |-> "https://api.groq.com", groq_api_key |-> "gsk"]}

DockerConfigs ==
    [base_image : {<<"nginx:alpine">>, <<"python:3.13-slim">>,
                   <<"nginx:alpine", LF, "FROM", " ", "scratch">>},
     expose_port : {80, 8080},
     copy_source : {<<"./html">>, <<".">>},
     work_dir : {<<"/usr/share/nginx/html">>, <<"/app">>, <<"/app", LF, "EXPOSE", " ", "22">>}]

\* GitHubActionsAgent.fetch_config: the new self.config, or the exception.
fetch_config_gha(methods, r, cfg) ==
    IF "query" \notin methods
    THEN [raised |-> "AttributeError", config |-> cfg]
    ELSE IF Truthy(r)
         THEN [raised |-> "none",
               config |-> [workflow_name |-> Get(r.doc, "workflowName", "CI Pipeline"),
                           python_version |-> Get(r.doc, "pythonVersion", "3.13.0"),
                           run_tests |-> Get(r.doc, "runTests", TRUE),
                           groq_api_endpoint |-> Get(r.doc, "groqApiEndpoint", ""),
                           groq_api_key |-> Get(r.doc, "groqApiKey", "")]]
         ELSE [raised |-> "ValidationError", config |-> cfg]

\* DockerfileAgent.fetch_config: the new self.config, or the exception.
fetch_config_docker(methods, r, cfg) ==
    IF "query" \notin methods
    THEN [raised |-> "AttributeError", config |-> cfg]
    ELSE IF Truthy(r)
         THEN [raised |-> "none",
               config |-> [base_image |-> Get(r.doc, "baseImage", <<"nginx:alpine">>),
                           expose_port |-> Get(r.doc, "exposePort", 80),
                           copy_source |-> Get(r.doc, "copySource", <<"./html">>),
                           work_dir |-> Get(r.doc, "workDir", <<"/usr/share/nginx/html">>),
                           groq_api_endpoint |-> Get(r.doc, "groqApiEndpoint", ""),
                           groq_api_key |-> Get(r.doc, "groqApiKey", "")]]
         ELSE [raised |-> "ValidationError", config |-> cfg]

\* An agent has been constructed and none of its methods has run yet.
AgentReady(a) ==
    /\ agent = a
    /\ apc = "ready"
    /\ comments = <<>>
    /\ ret = Unbound
    /\ aexc = "none"

InitGha ==
    /\ AgentReady("gha")
    /\ config \in GhaConfigs
    /\ remote \in PartialDocs(GhaRemoteFull)
    /\ pr_files = <<>> /\ github = 0 /\ chat_resp = Unbound

InitDocker ==
    /\ AgentReady("docker")
    /\ config \in DockerConfigs
    /\ remote \in PartialDocs(DockerRemoteFull)
    /\ pr_files = <<>> /\ github = 0 /\ chat_resp = Unbound

\* agent.fetch_config()
FetchConfig ==
    /\ agent \in {"gha", "docker"}
    /\ apc = "ready"
    /\ LET r == IF agent = "gha"
                THEN fetch_config_gha(GROQClientMethods, remote, config)
                ELSE fetch_config_docker(GROQClientMethods, remote, config)
       IN /\ config' = r.config
          /\ aexc' = r.raised
          /\ apc' = IF r.raised = "none" THEN "fetched" ELSE "raised"
    /\ UNCHANGED <<agent, remote, pr_files, github, chat_resp, comments, ret>>
    /\ UNCHANGED mvars

\* docker_agent.generate_dockerfile()
GenerateDockerfile ==
    /\ agent = "docker"
    /\ apc = "ready"
    /\ ret' = generate_dockerfile(config)
    /\ apc' = "generated"
    /\ UNCHANGED <<agent, config, remote, pr_files, github, chat_resp, comments, aexc>>
    /\ UNCHANGED mvars

\* Largest number of changed files of a pull request that is explored.
MaxFiles == 2

\* Python None where a str is expected.
PyNone == "<None>"

\* str.endswith on a file name given by its tokens (stem, then extensions).
EndsWith(name, suffix) == name # <<>> /\ name[Len(name)] = suffix

\* What send_code_review_request does for a file: it raises (HTTP error or a
\* response of the wrong shape), or returns a CodeReviewFeedback.
ReviewOk ==
    [raised |-> FALSE,
     issues |-> <<[description |-> "unused import"]>>,
     suggestions |-> <<"remove the import">>,
     overall_quality |-> "good"]
ReviewFails == [raised |-> TRUE, error |-> "500 Server Error"]

\* The changed files GitHub lists: name, patch (None for a binary file, a
\* rename without changes or too large a diff) and the review of the file.
PRFiles ==
    {[filename |-> <<"app", ".py">>, patch |-> "@@ -1 +1 @@", review |-> ReviewOk],
     [filename |-> <<"utils", ".py">>, patch |-> "@@ -2 +2 @@", review |-> ReviewFails],
     [filename |-> <<"moved", ".py">>, patch |-> PyNone, review |-> ReviewOk],
     [filename |-> <<"README", ".md">>, patch |-> "@@ -3 +3 @@", review |-> ReviewOk],
     [filename |-> <<"notes", ".py", ".txt">>, patch |-> "@@ -4 +4 @@", review |-> ReviewOk],
     [filename |-> <<"logo", ".png">>, patch |-> PyNone, review |-> ReviewOk]}

FileLists == UNION {[1..n -> PRFiles] : n \in 0..MaxFiles}

\* CodeReviewRequest(file_name=..., file_content=..., diff=file.patch):
\* diff is a required str.
CodeReviewRequestValid(f) == f.patch # PyNone

\* The entry perform_code_review appends for a file it sent for review.
FeedbackEntry(f) ==
    IF f.review.raised
    THEN [file |-> f.filename, error |-> f.review.error]
    ELSE [file |-> f.filename,
          issues |-> f.review.issues,
          suggestions |-> f.review.suggestions,
          overall_quality |-> f.review.overall_quality]

\* CodeReviewAgent.perform_code_review: the loop over the files from the
\* i-th on.  The request object is built outside the try block.
RECURSIVE perform_code_review(_, _, _)
perform_code_review(fs, i, feedback) ==
    IF i > Len(fs) THEN [raised |-> "none", feedback |-> feedback]
    ELSE IF ~EndsWith(fs[i].filename, ".py")
         THEN perform_code_review(fs, i + 1, feedback)
         ELSE IF ~CodeReviewRequestValid(fs[i])
              THEN [raised |-> "ValidationError", feedback |-> feedback]
              ELSE perform_code_review(fs, i + 1, Append(feedback, FeedbackEntry(fs[i])))

\* The comment post_feedback_to_github formats for a feedback entry.
ReviewComment(fb) ==
    IF "error" \in DOMAIN fb
    THEN [kind |-> "Code Review Error", text |-> fb.error]
    ELSE [kind |-> "Code Review", file |-> fb.file,
          overall |-> fb.overall_quality,
          issues |-> [j \in 1..Len(fb.issues) |-> fb.issues[j].description],
          suggestions |-> fb.suggestions]

\* CodeReviewAgent.post_feedback_to_github: the loop over the entries from
\* the i-th on; the failAt-th create_issue_comment raises.
RECURSIVE post_feedback_to_github(_, _, _, _)
post_feedback_to_github(feedback, i, posted, failAt) ==
    IF i > Len(feedback) THEN [raised |-> "none", comments |-> posted]
    ELSE IF i = failAt
         THEN [raised |-> "GithubException", comments |-> posted]
         ELSE post_feedback_to_github(feedback, i + 1,
                  Append(posted, ReviewComment(feedback[i])), failAt)

InitReview ==
    /\ AgentReady("review")
    /\ config = [repo_name |-> "octo/repo", pull_request_number |-> 7]
    /\ remote = Unbound
    /\ pr_files \in FileLists
    /\ github \in 0..MaxFiles
    /\ chat_resp = Unbound

\* CodeReviewAgent.run()
ReviewRun ==
    /\ agent = "review"
    /\ apc = "ready"
    /\ LET r == perform_code_review(pr_files, 1, <<>>)
           p == post_feedback_to_github(r.feedback, 1, comments, github)
       IN IF r.raised # "none"
          THEN /\ aexc' = r.raised
               /\ apc' = "raised"
               /\ UNCHANGED <<comments, ret>>
          ELSE /\ comments' = p.comments
               /\ aexc' = p.raised
               /\ apc' = IF p.raised = "none" THEN "returned" ELSE "raised"
               /\ ret' = IF p.raised = "none" THEN r.feedback ELSE ret
    /\ UNCHANGED <<agent, config, remote, pr_files, github, chat_resp>>
    /\ UNCHANGED mvars

\* What send_chat_create_request does: it raises (HTTP error, or a response
\* of the wrong shape), or returns a ChatCreateResponse.
ChatOutcomes ==
    {[raised |-> TRUE, error |-> e] : e \in {"HTTPError", "ValidationError"}}
        \cup {[raised |-> FALSE, bot_response |-> b, confidence |-> c, status |-> st] :
                b \in {"Looks good.", "Please add tests."},
                c \in {0, 1},
                st \in {"success", "error", "failed"}}

\* ChatAgent.perform_chat_interaction: the exception is printed and raised
\* again, otherwise the response is returned.
perform_chat_interaction(resp) ==
    IF resp.raised
    THEN [raised |-> resp.error]
    ELSE [raised |-> "none", response |-> resp]

\* ChatAgent.run: what it returns or raises, and the comments on the pull
\* request afterwards (postFails: create_issue_comment raises).
ChatAgentRun(resp, posted, postFails) ==
    LET r == perform_chat_interaction(resp)
    IN IF r.raised # "none"
       THEN [raised |-> r.raised, comments |-> posted]
       ELSE IF r.response.status = "success"
            THEN IF postFails
                 THEN [raised |-> "GithubException", comments |-> posted]
                 ELSE [raised |-> "none",
                       comments |-> Append(posted,
                            [kind |-> "AI Assistant", text |-> r.response.bot_response]),
                       ret |-> [bot_response |-> r.response.bot_response,
                                confidence |-> r.response.confidence,
                                status |-> r.response.status]]
            ELSE [raised |-> "none", comments |-> posted,
                  ret |-> [error |-> "Failed to get a successful response from GROQ Chat-Create API."]]

InitChat ==
    /\ AgentReady("chat")
    /\ config = [repo_name |-> "octo/repo", pull_request_number |-> 7]
    /\ remote = Unbound
    /\ pr_files = <<>>
    /\ github \in {0, 1}
    /\ chat_resp \in ChatOutcomes

\* ChatAgent.run()
ChatRun ==
    /\ agent = "chat"
    /\ apc = "ready"
    /\ LET r == ChatAgentRun(chat_resp, comments, github = 1)
       IN /\ aexc' = r.raised
          /\ comments' = r.comments
          /\ apc' = IF r.raised = "none" THEN "returned" ELSE "raised"
          /\ ret' = IF r.raised = "none" THEN r.ret ELSE ret
    /\ UNCHANGED <<agent, config, remote, pr_files, github, chat_resp>>
    /\ UNCHANGED mvars

AgentInit == MainIdle /\ (InitGha \/ InitDocker \/ InitReview \/ InitChat)

AgentNext == FetchConfig \/ GenerateDockerfile \/ ReviewRun \/ ChatRun

AgentSpec == AgentInit /\ [][AgentNext]_vars

\* ------------------------------------------------------------------------
\* Observations used by the properties

Phases == <<"a", "b", "c", "d">>

Terminal == pc \in {"done", "raised"}

\* The phase printed its opening line in this run: it has executed.
Started(ph) == \E i \in 1..Len(stdout) : stdout[i].phase = ph /\ stdout[i].kind = "start"

IsResult(l) == l.kind = "result"
IsEarlyResult(l) == l.kind = "result" /\ l.phase \in {"a", "b", "c"}

\* The per-phase outcome lines of the run, in the order printed.
ResultLines(out) == SelectSeq(out, IsResult)
ResultPhases(out) == [i \in 1..Len(ResultLines(out)) |-> ResultLines(out)[i].phase]

WriteFailed == \E ph \in {"a", "b"} : write_res[ph] \in {"open_failed", "write_failed"}

BuildFailed == build_proc # Unbound /\ (~build_proc.launched \/ build_proc.returncode # 0)
InspectFailed == inspect_proc # Unbound /\ (~inspect_proc.launched \/ inspect_proc.returncode # 0)

AdapterFailed(resp) == resp.raised \/ Len(resp.choices) = 0

\* ------------------------------------------------------------------------
\* Properties

\* C1: whatever stages fail, a run of main() that has ended has executed
\* all four phases (a), (b), (c) and (d).
C1_AllPhasesExecuted ==
    Terminal => \A i \in 1..Len(Phases) : Started(Phases[i])

\* C2: when phase (c) failed (build not launched, build exited non-zero, or
\* inspect failed), the run still executes phase (d) and build_data has a
\* last_build_status field holding a marker of the missing outcome.
C2_PredictionAfterFailedBuild ==
    (Terminal /\ (BuildFailed \/ InspectFailed)) =>
        /\ Started("d")
        /\ build_data # Unbound
        /\ "last_build_status" \in DOMAIN build_data
        /\ build_data.last_build_status # ExistsMsg(ImageTag)

\* C3: predict_build_failure returns, for a failed client call, a dict of
\* exactly status 'error' and a non-empty error message, and for a
\* successful call a dict of exactly status 'success' and the client's text;
\* the call never raises out of the predictor.
C3_PredictionWellFormed ==
    adapter_resp # Unbound =>
        /\ prediction # Unbound
        /\ exc = "none"
        /\ IF AdapterFailed(adapter_resp)
           THEN /\ DOMAIN prediction = {"error", "status"}
                /\ prediction.status = "error"
                /\ prediction.error # ""
           ELSE /\ DOMAIN prediction = {"prediction", "status"}
                /\ prediction.status = "success"
                /\ prediction.prediction = adapter_resp.choices[1].content

C3_Witness ==
    /\ adapter_resp # Unbound
    /\ ~adapter_resp.raised
    /\ Len(adapter_resp.choices) = 0
    /\ prediction.status = "error"

\* C4: check_build_status reports the image as present exactly when the
\* inspect process ran and exited 0; on a non-zero exit or a launch failure
\* it reports the image as not existing, or the error, and never as present.
C4_PresentIffExitZero ==
    inspect_proc # Unbound =>
        /\ (status = ExistsMsg(ImageTag))
               <=> (inspect_proc.launched /\ inspect_proc.returncode = 0)
        /\ (inspect_proc.launched /\ inspect_proc.returncode # 0)
               => status = NotExistsMsg(ImageTag)
        /\ ~inspect_proc.launched =>
               (status = ErrorMsg(inspect_proc.error) /\ inspect_proc.error # "")

C4_Witness ==
    /\ inspect_proc # Unbound
    /\ ~inspect_proc.launched
    /\ ImageTag \in images
    /\ status = ErrorMsg(LaunchError)

\* C5: a run that has ended has reported exactly four phase entries, one
\* for each of (a), (b), (c), (d), in that order.
C5_FourPhaseEntries ==
    Terminal => ResultPhases(stdout) = Phases

\* C6: after a write failure of the workflow file or of the Dockerfile the
\* run is aborted: no later phase executes and the image build, the image
\* inspect and the inference call are not invoked in that run.
C6_WriteFailureAborts ==
    WriteFailed =>
        /\ pc = "raised"
        /\ exc = "OSError"
        /\ calls = NoCalls
        /\ ~Started("c") /\ ~Started("d")
        /\ write_res.a # "ok" => ~Started("b")
        /\ status = UnboundStr /\ build_data = Unbound /\ prediction = Unbound

C6_Witness ==
    /\ write_res.a = "ok"
    /\ write_res.b = "write_failed"
    /\ pc = "raised"
    /\ calls = NoCalls

\* C7: once an external process or the inference client has been invoked,
\* its failure is reported and never leaves main() as an exception.
C7_ExternalErrorsAbsorbed ==
    calls # NoCalls => (pc # "raised" /\ exc = "none")

\* C8: when the image build of the current run failed, the status handed
\* to the predictor is never the one of a present image.
C8_NoStaleBuildStatus ==
    (build_data # Unbound /\ BuildFailed) =>
        build_data.last_build_status # ExistsMsg(ImageTag)

\* C9: the build_data handed to predict_build_failure carries the status
\* the inspect of the same run returned, with dockerfile_exists true; for a
\* tag that is not in the image store that status is the absent one, and
\* the predictor is invoked with it.
C9_ReportCarriesInspectStatus ==
    build_data # Unbound =>
        /\ inspect_proc # Unbound
        /\ build_data.last_build_status = status
        /\ build_data.dockerfile_exists = TRUE
        /\ calls.adapter = 1
        /\ (ImageTag \notin images /\ inspect_proc.launched)
               => build_data.last_build_status = NotExistsMsg(ImageTag)
        /\ (inspect_proc.launched /\ inspect_proc.returncode = 0)
               <=> build_data.last_build_status = ExistsMsg(ImageTag)

C9_Witness ==
    /\ build_data # Unbound
    /\ ImageTag \notin images
    /\ inspect_proc.launched
    /\ build_data.last_build_status = NotExistsMsg(ImageTag)
    /\ prediction # Unbound

\* C10: when the inference call fails, the step that runs the prediction
\* reports the prediction with status 'error' and leaves everything the run
\* reported for phases (a), (b) and (c) as it was.
C10_AdapterFailureFrame ==
    [][(pc = "phase4" /\ pc' = "done" /\ AdapterFailed(adapter_resp')) =>
          /\ SelectSeq(stdout', IsEarlyResult) = SelectSeq(stdout, IsEarlyResult)
          /\ ResultPhases(stdout') = Phases
          /\ ResultLines(stdout')[Len(Phases)].value.status = "error"
          /\ status' = status
          /\ write_res' = write_res
          /\ files' = files]_vars

C10_Witness ==
    /\ pc = "done"
    /\ adapter_resp.raised
    /\ adapter_resp.error = "Error code: 500"
    /\ prediction.status = "error"
    /\ ResultPhases(stdout) = Phases
    /\ BuildFailed

\* The phases whose opening line the run has printed, in the order printed.
IsStart(l) == l.kind = "start"
StartPhases(out) == [i \in 1..Len(SelectSeq(out, IsStart)) |-> SelectSeq(out, IsStart)[i].phase]

\* C11: a run of main() that has ended exits with status 0, whatever phase
\* failed.
C11_ExitsWithSuccess ==
    Terminal => ExitCode(pc) = 0

\* C12: the stages of a run execute in one forward order: the workflow file
\* is written before the Dockerfile, the Dockerfile before the image build
\* is invoked, the build has exited before the inspect is invoked, and the
\* inspect has returned before the inference call is made.
C12_ForwardOrder ==
    /\ StartPhases(stdout) = SubSeq(Phases, 1, Len(StartPhases(stdout)))
    /\ write_res.b # "none" => write_res.a = "ok"
    /\ calls.build > 0 => (write_res.a = "ok" /\ write_res.b = "ok")
    /\ calls.inspect > 0 => (build_proc # Unbound /\ build_proc.launched /\ calls.build > 0)
    /\ status # UnboundStr => calls.inspect > 0
    /\ calls.adapter > 0 => (inspect_proc # Unbound /\ status # UnboundStr
                              /\ build_data.last_build_status = status)
    /\ build_proc = Unbound => (inspect_proc = Unbound /\ adapter_resp = Unbound)
    /\ inspect_proc = Unbound => (adapter_resp = Unbound /\ build_data = Unbound)

C12_Witness ==
    /\ pc = "done"
    /\ calls = [build |-> 1, inspect |-> 1, adapter |-> 1]
    /\ StartPhases(stdout) = Phases
    /\ files[WorkflowPath] = generate_pipeline(gha_config)
    /\ files[DockerfilePath] = generate_dockerfile(docker_config)

\* C13: in one run the image build, the image inspect and the inference
\* client are each invoked at most once; a failing one has been invoked
\* exactly once when the run goes on or ends.
C13_NoRetry ==
    /\ \A k \in DOMAIN calls : calls[k] <= 1
    /\ build_proc # Unbound => calls.build = 1
    /\ inspect_proc # Unbound => calls.inspect = 1
    /\ adapter_resp # Unbound => calls.adapter = 1

C13_Witness ==
    /\ pc = "done"
    /\ BuildFailed
    /\ InspectFailed
    /\ AdapterFailed(adapter_resp)
    /\ calls = [build |-> 1, inspect |-> 1, adapter |-> 1]

\* The lines of a text, and the instructions of a Dockerfile text: its
\* non-empty lines, each with its keyword and what follows the blank.
RECURSIVE LinesFrom(_, _, _)
LinesFrom(rest, cur, acc) ==
    IF rest = <<>> THEN Append(acc, cur)
    ELSE IF Head(rest) = LF
         THEN LinesFrom(Tail(rest), <<>>, Append(acc, cur))
         ELSE LinesFrom(Tail(rest), Append(cur, Head(rest)), acc)

IsNonEmpty(line) == line # <<>>
Instruction(line) == [op |-> Head(line), arg |-> SubSeq(line, 3, Len(line))]
Instructions(text) ==
    LET ls == SelectSeq(LinesFrom(text, <<>>, <<>>), IsNonEmpty)
    IN [i \in 1..Len(ls) |-> Instruction(ls[i])]

ExpectedInstructions(cfg) ==
    << [op |-> "FROM", arg |-> cfg.base_image],
       [op |-> "WORKDIR", arg |-> cfg.work_dir],
       [op |-> "COPY", arg |-> cfg.copy_source \o <<" ", ".">>],
       [op |-> "EXPOSE", arg |-> <<ToString(cfg.expose_port)>>],
       [op |-> "CMD", arg |-> <<"[\"nginx\", \"-g\", \"daemon off;\"]">>] >>

HasLineBreak(value) == \E i \in 1..Len(value) : value[i] = LF
NoLineBreaks(cfg) ==
    ~HasLineBreak(cfg.base_image) /\ ~HasLineBreak(cfg.work_dir)
        /\ ~HasLineBreak(cfg.copy_source)

FetchConfigRan == agent \in {"gha", "docker"} /\ apc \in {"fetched", "raised"}

\* C14: fetch_config does not raise, and leaves a configuration in which
\* every field the remote document lacks (or all of them, when there is no
\* document) holds its documented default.
C14_FetchConfigDefaults ==
    FetchConfigRan =>
        /\ aexc = "none"
        /\ LET doc == IF remote.available THEN remote.doc ELSE <<>>
           IN IF agent = "gha"
              THEN /\ config.workflow_name = Get(doc, "workflowName", "CI Pipeline")
                   /\ config.python_version = Get(doc, "pythonVersion", "3.13.0")
                   /\ config.run_tests = Get(doc, "runTests", TRUE)
              ELSE /\ config.base_image = Get(doc, "baseImage", <<"nginx:alpine">>)
                   /\ config.expose_port = Get(doc, "exposePort", 80)
                   /\ config.copy_source = Get(doc, "copySource", <<"./html">>)
                   /\ config.work_dir = Get(doc, "workDir", <<"/usr/share/nginx/html">>)

\* C15 (as claimed): for every configuration the generated Dockerfile has
\* exactly the instructions FROM, WORKDIR, COPY, EXPOSE, CMD, in that order,
\* each carrying the configured value verbatim.
C15_OneInstructionEach ==
    (agent = "docker" /\ apc = "generated") =>
        Instructions(ret) = ExpectedInstructions(config)

\* C15 (amended): the same, for every configuration whose values contain no
\* line break.
C15_OneInstructionEachNoLineBreak ==
    (agent = "docker" /\ apc = "generated" /\ NoLineBreaks(config)) =>
        Instructions(ret) = ExpectedInstructions(config)

C15_Witness ==
    /\ agent = "docker"
    /\ apc = "generated"
    /\ config.base_image = <<"python:3.13-slim">>
    /\ config.expose_port = 8080
    /\ config.work_dir = <<"/app">>
    /\ Instructions(ret) = ExpectedInstructions(config)

IsPy(f) == EndsWith(f.filename, ".py")
PyNames(fs) == [i \in 1..Len(SelectSeq(fs, IsPy)) |-> SelectSeq(fs, IsPy)[i].filename]

ReviewRan == agent = "review" /\ apc \in {"returned", "raised"}
ChatRan == agent = "chat" /\ apc \in {"returned", "raised"}

\* C16: when GitHub accepts every comment, CodeReviewAgent.run returns one
\* feedback entry for each changed file ending in '.py', in the order of the
\* file list, and none for any other file; a file whose review request
\* failed has an error entry; and one comment is posted per entry.
C16_OneEntryPerPythonFile ==
    (ReviewRan /\ github = 0) =>
        /\ apc = "returned"
        /\ aexc = "none"
        /\ [i \in 1..Len(ret) |-> ret[i].file] = PyNames(pr_files)
        /\ \A i \in 1..Len(ret) :
              ("error" \in DOMAIN ret[i]) <=> SelectSeq(pr_files, IsPy)[i].review.raised
        /\ Len(comments) = Len(ret)

\* C17: when GitHub accepts the comment, ChatAgent.run returns the bot
\* response, confidence and status and posts one comment if the chat
\* interaction succeeded, and otherwise (the call failed, or the status is
\* not 'success') returns a dict with an error message and posts nothing.
C17_ChatRunReturnsDict ==
    (ChatRan /\ github = 0) =>
        /\ apc = "returned"
        /\ aexc = "none"
        /\ IF ~chat_resp.raised /\ chat_resp.status = "success"
           THEN /\ ret = [bot_response |-> chat_resp.bot_response,
                          confidence |-> chat_resp.confidence,
                          status |-> "success"]
                /\ Len(comments) = 1
           ELSE /\ DOMAIN ret = {"error"}
                /\ ret.error # ""
                /\ comments = <<>>

====
